---- MODULE Spec2Model ----
(***************************************************************************)
(* Model of the catalog diff-and-merge engine of ai-translator:            *)
(*   src/src/diff.ts            diff, removeKeys, getTranslatableContent,  *)
(*                              deleteFieldByPath, backupFile              *)
(*   src/src/file-processor.ts  grouping, merging, updateLanguageFile,     *)
(*                              deletion fan-out                           *)
(*   src/src/ai.ts              translateTextObject and its parse stages   *)
(*   src/src/translate.ts       checkTranslationNeeds, translateLanguage,  *)
(*                              translate                                  *)
(*   src/src/cli.ts             the "auto" command                         *)
(*                                                                         *)
(* A JavaScript object is modelled as the sequence of its own enumerable   *)
(* entries in insertion order (what Object.entries / for..in / JSON text   *)
(* show).  Catalog keys range over names that are neither integer-like nor *)
(* members of Object.prototype, so "k in obj" is own-key membership.       *)
(***************************************************************************)
EXTENDS Integers, Sequences, FiniteSets, TLC

(***************************************************************************)
(* JSON values.  A value is a record [kind, str, ent]: a text has kind     *)
(* "str", a nested mapping has kind "obj" and its entries in ent, and      *)
(* "undef" is JavaScript's undefined.  An entry is [k |-> key, v |-> value]*)
(***************************************************************************)
Str(s) == [kind |-> "str", str |-> s, ent |-> <<>>]

ObjVal(o) == [kind |-> "obj", str |-> "", ent |-> o]

Undefined == [kind |-> "undef", str |-> "", ent |-> <<>>]

Entry(key, val) == [k |-> key, v |-> val]

EmptyObj == <<>>

\* Object.keys(o): the own keys in insertion order
ObjectKeys(o) == [i \in 1..Len(o) |-> o[i].k]

KeySet(o) == {o[i].k : i \in 1..Len(o)}

\* key in o
In(o, key) == key \in KeySet(o)

\* o[key]
Get(o, key) ==
    IF In(o, key) THEN o[CHOOSE i \in 1..Len(o) : o[i].k = key].v ELSE Undefined

\* o[key] = val: an existing key keeps its position, a new key is appended
Put(o, key, val) ==
    IF In(o, key)
    THEN [i \in 1..Len(o) |-> IF o[i].k = key THEN Entry(key, val) ELSE o[i]]
    ELSE Append(o, Entry(key, val))

\* delete o[key]
Delete(o, key) == SelectSeq(o, LAMBDA e : e.k # key)

\* Object.assign(target, source)
RECURSIVE ObjectAssign(_, _)
ObjectAssign(target, source) ==
    IF source = <<>> THEN target
    ELSE ObjectAssign(Put(target, Head(source).k, Head(source).v), Tail(source))

\* typeof value === 'object' && value !== null
IsObject(val) == val.kind = "obj"

\* The two mappings hold the same entries, whatever their order
SameMapping(o1, o2) ==
    /\ KeySet(o1) = KeySet(o2)
    /\ \A key \in KeySet(o1) : Get(o1, key) = Get(o2, key)

\* String(value) in place of JSON.stringify(value)
JSONStringifyShallow(val) ==
    IF val.kind = "str" THEN <<"text", val.str>>
    ELSE IF val.kind = "obj" THEN <<"[object Object]">>
    ELSE <<>>

\* JSON.stringify(value), as the sequence of its tokens
RECURSIVE JSONStringify(_)
RECURSIVE StringifyEntries(_)
StringifyEntries(o) ==
    IF o = <<>> THEN <<>>
    ELSE <<"key", Head(o).k>> \o JSONStringify(Head(o).v) \o StringifyEntries(Tail(o))

JSONStringify(val) ==
    IF val.kind = "str" THEN <<"text", val.str>>
    ELSE IF val.kind = "obj" THEN <<"{">> \o StringifyEntries(val.ent) \o <<"}">>
    ELSE <<>>

(***************************************************************************)
(* diff.ts                                                                 *)
(***************************************************************************)
\* the first loop of diff: missing and changed, in oldObj's key order
RECURSIVE DiffOld(_, _, _)
DiffOld(rest, newObj, acc) ==
    IF rest = <<>> THEN acc
    ELSE LET key == Head(rest).k
             oldVal == Head(rest).v
         IN  IF ~In(newObj, key)
             THEN DiffOld(Tail(rest), newObj,
                          [acc EXCEPT !.missing = Append(@, key)])
             ELSE IF JSONStringify(oldVal) # JSONStringify(Get(newObj, key))
             THEN DiffOld(Tail(rest), newObj,
                          [acc EXCEPT !.changed = Append(@, key)])
             ELSE DiffOld(Tail(rest), newObj, acc)

\* the second loop of diff: added, in newObj's key order
RECURSIVE DiffNew(_, _, _)
DiffNew(rest, oldObj, acc) ==
    IF rest = <<>> THEN acc
    ELSE IF ~In(oldObj, Head(rest).k)
         THEN DiffNew(Tail(rest), oldObj, [acc EXCEPT !.added = Append(@, Head(rest).k)])
         ELSE DiffNew(Tail(rest), oldObj, acc)

EmptyDiff == [missing |-> <<>>, added |-> <<>>, changed |-> <<>>]

\* diff without its second loop
diffWithoutAdded(oldObj, newObj) == DiffOld(oldObj, newObj, EmptyDiff)

\* diff with an early return of the empty result for an empty baseline
diffSkipEmpty(oldObj, newObj) ==
    IF oldObj = <<>> THEN EmptyDiff
    ELSE DiffNew(newObj, oldObj, DiffOld(oldObj, newObj, EmptyDiff))

diff(oldObj, newObj) == DiffNew(newObj, oldObj, DiffOld(oldObj, newObj, EmptyDiff))

\* the elements of an array
Elems(arr) == {arr[i] : i \in 1..Len(arr)}

(***************************************************************************)
(* Files.  A file is [exists, valid, data]: data is the parsed document of *)
(* a file that exists and holds well-formed JSON.                          *)
(***************************************************************************)
NoFile == [exists |-> FALSE, valid |-> FALSE, data |-> <<>>]

JsonFile(o) == [exists |-> TRUE, valid |-> TRUE, data |-> o]

\* a file whose text JSON.parse rejects
BadFile == [exists |-> TRUE, valid |-> FALSE, data |-> <<>>]

\* readJsonFile: {} for an absent or unparsable file
readJsonFile(file) == IF file.exists /\ file.valid THEN file.data ELSE EmptyObj

\* saveJsonFile: the file now holds JSON.stringify(data, null, 2)
saveJsonFile(data) == JsonFile(data)

\* backupFile that saves the empty object
backupFileEmpty(file) == saveJsonFile(EmptyObj)

\* backupFile(filePath, backupPath): the new content of backupPath
backupFile(file) == saveJsonFile(readJsonFile(file))

\* removeKeys(obj, keysToRemove)
RECURSIVE removeKeys(_, _)
removeKeys(obj, keysToRemove) ==
    IF keysToRemove = <<>> THEN obj
    ELSE removeKeys(Delete(obj, Head(keysToRemove)), Tail(keysToRemove))

\* one forEach of getTranslatableContent
RECURSIVE CopyKeys(_, _, _)
CopyKeys(keys, newObj, acc) ==
    IF keys = <<>> THEN acc
    ELSE IF In(newObj, Head(keys)) /\ Get(newObj, Head(keys)) # Undefined
         THEN CopyKeys(Tail(keys), newObj, Put(acc, Head(keys), Get(newObj, Head(keys))))
         ELSE CopyKeys(Tail(keys), newObj, acc)

getTranslatableContent(newObj, diffResult) ==
    CopyKeys(diffResult.changed, newObj, CopyKeys(diffResult.added, newObj, EmptyObj))

simpleDiff(oldFile, newFile) == diff(readJsonFile(oldFile), readJsonFile(newFile))

\* deleteFieldByPath without the test `lastKey in current`
RECURSIVE deleteFieldByPathUnchecked(_, _)
deleteFieldByPathUnchecked(obj, path) ==
    IF path = <<>> THEN [deleted |-> FALSE, obj |-> obj]
    ELSE IF Len(path) = 1
    THEN [deleted |-> TRUE, obj |-> Delete(obj, path[1])]
    ELSE IF ~IsObject(Get(obj, path[1]))
    THEN [deleted |-> FALSE, obj |-> obj]
    ELSE LET sub == deleteFieldByPathUnchecked(Get(obj, path[1]).ent, Tail(path))
         IN  [deleted |-> sub.deleted, obj |-> Put(obj, path[1], ObjVal(sub.obj))]

\* deleteFieldByPath(obj, path): [deleted, obj], obj as mutated in place
RECURSIVE deleteFieldByPath(_, _)
deleteFieldByPath(obj, path) ==
    IF path = <<>> THEN [deleted |-> FALSE, obj |-> obj]
    ELSE IF Len(path) = 1
    THEN IF In(obj, path[1])
         THEN [deleted |-> TRUE, obj |-> Delete(obj, path[1])]
         ELSE [deleted |-> FALSE, obj |-> obj]
    ELSE IF ~IsObject(Get(obj, path[1]))
    THEN [deleted |-> FALSE, obj |-> obj]
    ELSE LET sub == deleteFieldByPath(Get(obj, path[1]).ent, Tail(path))
         IN  [deleted |-> sub.deleted, obj |-> Put(obj, path[1], ObjVal(sub.obj))]

(***************************************************************************)
(* file-processor.ts                                                       *)
(***************************************************************************)
DefaultGroup == "default"

\* the loop body shared by groupEnContent and groupExistingContent
GroupStep(groupedContent, e) ==
    IF IsObject(e.v)
    THEN Put(groupedContent, e.k, e.v)
    ELSE LET cur == IF In(groupedContent, DefaultGroup)
                    THEN Get(groupedContent, DefaultGroup).ent ELSE EmptyObj
         IN  Put(groupedContent, DefaultGroup, ObjVal(Put(cur, e.k, e.v)))

RECURSIVE GroupEntries(_, _)
GroupEntries(rest, groupedContent) ==
    IF rest = <<>> THEN groupedContent
    ELSE GroupEntries(Tail(rest), GroupStep(groupedContent, Head(rest)))

groupEnContent(enFile) == GroupEntries(readJsonFile(enFile), EmptyObj)

groupExistingContent(languageFile) == GroupEntries(readJsonFile(languageFile), EmptyObj)

RECURSIVE MergeEntries(_, _)
MergeEntries(rest, mergedContent) ==
    IF rest = <<>> THEN mergedContent
    ELSE IF Head(rest).k = DefaultGroup
         THEN MergeEntries(Tail(rest), ObjectAssign(mergedContent, Head(rest).v.ent))
         ELSE MergeEntries(Tail(rest), Put(mergedContent, Head(rest).k, Head(rest).v))

\* mergeGroupedContent that promotes the entries of every group to the top level
RECURSIVE mergeGroupedContentFlat(_)
mergeGroupedContentFlat(groupedContent) ==
    IF groupedContent = <<>> THEN EmptyObj
    ELSE ObjectAssign(Head(groupedContent).v.ent,
                      mergeGroupedContentFlat(Tail(groupedContent)))

mergeGroupedContent(groupedContent) == MergeEntries(groupedContent, EmptyObj)

\* existingKeys.length !== newKeys.length || !existingKeys.every(key => newKeys.includes(key))
StructuralChange(existingGroup, newGroupData) ==
    \/ Len(existingGroup) # Len(newGroupData)
    \/ ~(KeySet(existingGroup) \subseteq KeySet(newGroupData))

\* the loop body with the existing values kept when the key sets are the same
UpdateStepKeepExisting(existingGroupedContent, e) ==
    IF ~In(existingGroupedContent, e.k)
    THEN Put(existingGroupedContent, e.k, e.v)
    ELSE IF StructuralChange(Get(existingGroupedContent, e.k).ent, e.v.ent)
    THEN Put(existingGroupedContent, e.k, e.v)
    ELSE existingGroupedContent

\* the loop body of updateLanguageFile
UpdateStep(existingGroupedContent, e) ==
    IF ~In(existingGroupedContent, e.k)
    THEN Put(existingGroupedContent, e.k, e.v)
    ELSE IF StructuralChange(Get(existingGroupedContent, e.k).ent, e.v.ent)
    THEN Put(existingGroupedContent, e.k, e.v)
    ELSE Put(existingGroupedContent, e.k,
             ObjVal(ObjectAssign(Get(existingGroupedContent, e.k).ent, e.v.ent)))

RECURSIVE UpdateEntries(_, _)
UpdateEntries(rest, existingGroupedContent) ==
    IF rest = <<>> THEN existingGroupedContent
    ELSE UpdateEntries(Tail(rest), UpdateStep(existingGroupedContent, Head(rest)))

\* updateLanguageFile that writes the new groups alone
updateLanguageFileFresh(languageFile, newGroupedContent) ==
    saveJsonFile(mergeGroupedContent(newGroupedContent))

\* updateLanguageFile(languageFilePath, newGroupedContent): the file written
updateLanguageFile(languageFile, newGroupedContent) ==
    saveJsonFile(mergeGroupedContent(
        UpdateEntries(newGroupedContent, groupExistingContent(languageFile))))

\* deleteFieldFromLanguageFile that reports the deletion and does not save it
deleteFieldFromLanguageFileUnsaved(languageFile, path) ==
    [deleted |-> deleteFieldByPath(readJsonFile(languageFile), path).deleted,
     file |-> languageFile]

\* deleteFieldFromLanguageFile: [deleted, file]
deleteFieldFromLanguageFile(languageFile, path) ==
    LET r == deleteFieldByPath(readJsonFile(languageFile), path)
    IN  IF r.deleted
        THEN [deleted |-> TRUE, file |-> saveJsonFile(r.obj)]
        ELSE [deleted |-> FALSE, file |-> languageFile]

(***************************************************************************)
(* ai.ts: the translation provider seen from translateTextObject.  A       *)
(* response either fails (translateText reports no success) or carries a   *)
(* text.  The text is described by what it holds (body: an object, a JSON   *)
(* value that is not an object, or prose), by how it departs from JSON     *)
(* (defect), by whether a value holds a word followed by a colon or an      *)
(* apostrophe, which the repair rewrites (fragile), and by whether every    *)
(* entry stands on a line of its own (pretty).  The object in the text      *)
(* translates the requested keys except those in omit and, when extra is   *)
(* set, carries a key that was not requested.  When the keys are           *)
(* translated one by one, the calls for the keys in omit fail.             *)
(***************************************************************************)
\* the defects the three replace() calls of the repair remove
Fixable == {"trailingComma", "singleQuotes", "unquotedKeys"}

ResponseText(body, defect, fragile, pretty) ==
    [body |-> body, defect |-> defect, fragile |-> fragile, pretty |-> pretty]

\* a text without any JSON in it
Prose == ResponseText("prose", "none", FALSE, FALSE)

ResponseTexts ==
    {ResponseText(body, defect, fragile, pretty) :
        body \in {"object", "scalar", "prose"},
        defect \in {"none", "truncated"} \cup Fixable,
        fragile \in BOOLEAN, pretty \in BOOLEAN}

ProviderFail == [ok |-> FALSE, text |-> Prose, omit |-> {}, extra |-> FALSE]

ProviderText(text, omitKeys, withExtra) ==
    [ok |-> TRUE, text |-> text, omit |-> omitKeys, extra |-> withExtra]

\* the text is an object laid out as JSON.stringify(textObject, null, 2) does
ProviderOk(omitKeys, withExtra) ==
    ProviderText(ResponseText("object", "none", FALSE, TRUE), omitKeys, withExtra)

ProviderUnparsed(failedKeys) == ProviderText(Prose, failedKeys, FALSE)

\* the text the provider returns for a value
TranslatedText == Str("T")

\* the key of an unrequested entry in a response
ExtraKey == "extra"

\* the object parsed from the response
RECURSIVE ParsedResponse(_, _)
ParsedResponse(textObject, response) ==
    IF textObject = <<>>
    THEN IF response.extra THEN <<Entry(ExtraKey, TranslatedText)>> ELSE <<>>
    ELSE IF Head(textObject).k \in response.omit
         THEN ParsedResponse(Tail(textObject), response)
         ELSE <<Entry(Head(textObject).k, TranslatedText)>>
                  \o ParsedResponse(Tail(textObject), response)

\* the missing-key loop left out: the parsed object is returned as it is
FillNothing(rest, translatedObject) == translatedObject

\* for (const key of originalKeys) if (!(key in translatedObject)) translatedObject[key] = textObject[key]
RECURSIVE FillMissing(_, _)
FillMissing(rest, translatedObject) ==
    IF rest = <<>> THEN translatedObject
    ELSE IF ~In(translatedObject, Head(rest).k)
         THEN FillMissing(Tail(rest), Put(translatedObject, Head(rest).k, Head(rest).v))
         ELSE FillMissing(Tail(rest), translatedObject)

\* fallbackToIndividualTranslation: result[key] is the translated text, or the
\* value itself when the call for the key failed
RECURSIVE fallbackToIndividualTranslation(_, _)
fallbackToIndividualTranslation(textObject, failedKeys) ==
    IF textObject = <<>> THEN <<>>
    ELSE <<Entry(Head(textObject).k,
                 IF Head(textObject).k \in failedKeys
                 THEN Head(textObject).v ELSE TranslatedText)>>
             \o fallbackToIndividualTranslation(Tail(textObject), failedKeys)

\* JSON.parse(text): [ok, body]
JSONparse(text) ==
    [ok |-> text.body # "prose" /\ text.defect = "none", body |-> text.body]

\* fixedText: trailing commas removed, single quotes turned into double
\* quotes, every word before a colon quoted; in a fragile text the last two
\* replacements hit a value and leave a text that is not JSON
RepairText(text) ==
    [text EXCEPT !.defect = IF text.fragile THEN "brokenValue"
                            ELSE IF @ \in Fixable THEN "none" ELSE @]

\* the pairs of the lines of cleanText that match /^\s*"([^"]+)"\s*:\s*"([^"]*)"/
\* with a value that is not empty
ExtractLines(textObject, response) ==
    IF /\ response.text.body = "object" /\ response.text.pretty
       /\ response.text.defect \notin {"singleQuotes", "unquotedKeys"}
    THEN ParsedResponse(textObject, response)
    ELSE <<>>

\* the parse without the line-based extraction
ParseResponseNoLines(textObject, response) ==
    LET first == JSONparse(response.text)
        second == JSONparse(RepairText(response.text))
    IN  IF first.ok
        THEN [stages |-> <<"strict">>, threw |-> FALSE, body |-> first.body]
        ELSE IF second.ok
        THEN [stages |-> <<"strict", "repair">>, threw |-> FALSE, body |-> second.body]
        ELSE [stages |-> <<"strict", "repair">>, threw |-> TRUE, body |-> "prose"]

\* ai.ts lines 286-327: translatedObject is parsed from cleanText, or from
\* fixedText, or extracted line by line; no pair extracted throws.
\* [stages, threw, body]: the stages gone through, and what was parsed
ParseResponse(textObject, response) ==
    LET first == JSONparse(response.text)
        second == JSONparse(RepairText(response.text))
        pairs == ExtractLines(textObject, response)
    IN  IF first.ok
        THEN [stages |-> <<"strict">>, threw |-> FALSE, body |-> first.body]
        ELSE IF second.ok
        THEN [stages |-> <<"strict", "repair">>, threw |-> FALSE, body |-> second.body]
        ELSE IF Len(pairs) # 0
        THEN [stages |-> <<"strict", "repair", "lines">>, threw |-> FALSE, body |-> "object"]
        ELSE [stages |-> <<"strict", "repair", "lines">>, threw |-> TRUE, body |-> "prose"]

\* translateTextObject: [threw, value, stages, path].  A parsed value that is
\* not an object (null, a string, a number, a boolean) raises a TypeError in
\* the checks of lines 330-343, which the catch of line 362 handles like a
\* parse error
translateTextObject(textObject, response) ==
    IF ~response.ok
    THEN [threw |-> TRUE, value |-> EmptyObj, stages |-> <<>>, path |-> "failed"]
    ELSE LET p == ParseResponse(textObject, response)
         IN  IF p.threw \/ p.body # "object"
             THEN [threw |-> FALSE,
                   value |-> fallbackToIndividualTranslation(textObject, response.omit),
                   stages |-> p.stages, path |-> "fallback"]
             ELSE [threw |-> FALSE,
                   value |-> FillMissing(textObject, ParsedResponse(textObject, response)),
                   stages |-> p.stages, path |-> p.stages[Len(p.stages)]]

(***************************************************************************)
(* translate.ts                                                            *)
(***************************************************************************)
\* String(value) of a value that is not a string
StringOf(val) == IF val.kind = "str" THEN val ELSE Str("[object Object]")

RECURSIVE ConvertValues(_)
ConvertValues(o) ==
    IF o = <<>> THEN <<>>
    ELSE <<Entry(Head(o).k, StringOf(Head(o).v))>> \o ConvertValues(Tail(o))

\* the loop body that turns rawTranslatableContent into GroupedContent
ConvertStep(translatableContent, e) ==
    IF IsObject(e.v)
    THEN Put(translatableContent, e.k, ObjVal(ConvertValues(e.v.ent)))
    ELSE LET cur == IF In(translatableContent, DefaultGroup)
                    THEN Get(translatableContent, DefaultGroup).ent ELSE EmptyObj
         IN  Put(translatableContent, DefaultGroup, ObjVal(Put(cur, e.k, StringOf(e.v))))

RECURSIVE ConvertEntries(_, _)
ConvertEntries(rest, translatableContent) ==
    IF rest = <<>> THEN translatableContent
    ELSE ConvertEntries(Tail(rest), ConvertStep(translatableContent, Head(rest)))

\* the result of simpleDiff, or the mark that no diff was computed
NoDiff == [computed |-> FALSE, missing |-> <<>>, added |-> <<>>, changed |-> <<>>]

Computed(d) ==
    [computed |-> TRUE, missing |-> d.missing, added |-> d.added, changed |-> d.changed]

\* isFirstTime alone
IsFirstRunAbsentOnly(oldEnFile) == ~oldEnFile.exists

\* isFirstTime || isOldFileEmpty without the catch that sets isOldFileEmpty
IsFirstRunParsedOnly(oldEnFile) ==
    \/ ~oldEnFile.exists
    \/ oldEnFile.valid /\ Len(oldEnFile.data) = 0

\* isFirstTime || isOldFileEmpty
IsFirstRun(oldEnFile) ==
    \/ ~oldEnFile.exists
    \/ ~oldEnFile.valid
    \/ Len(oldEnFile.data) = 0

\* checkTranslationNeeds that translates everything when nothing changed
checkTranslationNeedsEager(enFile, oldEnFile) ==
    LET d == simpleDiff(oldEnFile, enFile)
    IN  [shouldTranslate |-> TRUE,
         translatableContent |-> groupEnContent(enFile),
         diffResult |-> IF IsFirstRun(oldEnFile) THEN NoDiff ELSE Computed(d)]

\* checkTranslationNeeds: [shouldTranslate, translatableContent, diffResult]
checkTranslationNeeds(enFile, oldEnFile) ==
    IF IsFirstRun(oldEnFile)
    THEN [shouldTranslate |-> TRUE,
          translatableContent |-> groupEnContent(enFile),
          diffResult |-> NoDiff]
    ELSE LET d == simpleDiff(oldEnFile, enFile)
         IN  IF d.missing = <<>> /\ d.added = <<>> /\ d.changed = <<>>
             THEN [shouldTranslate |-> FALSE,
                   translatableContent |-> EmptyObj,
                   diffResult |-> Computed(d)]
             ELSE [shouldTranslate |-> TRUE,
                   translatableContent |->
                       ConvertEntries(getTranslatableContent(readJsonFile(enFile), d),
                                      EmptyObj),
                   diffResult |-> Computed(d)]

\* Object.values(translatableContent).reduce((sum, group) => sum + Object.keys(group).length, 0)
RECURSIVE TotalItems(_)
TotalItems(translatableContent) ==
    IF translatableContent = <<>> THEN 0
    ELSE Len(Head(translatableContent).v.ent) + TotalItems(Tail(translatableContent))

\* the breaker with errorRate >= 0.5 in place of errorRate > 0.5
BreakerTripsAtHalf(groupErrors, translatedGroups) ==
    /\ 2 * groupErrors >= Len(translatedGroups) + groupErrors
    /\ groupErrors >= 2

\* errorRate > 0.5 && groupErrors >= 2, errorRate = groupErrors / (translated + groupErrors)
BreakerTrips(groupErrors, translatedGroups) ==
    /\ 2 * groupErrors > Len(translatedGroups) + groupErrors
    /\ groupErrors >= 2

\* Error messages, as the sequence of their parts; includes() looks for a part.
\* The parts stand for the Chinese texts of the source: "rate-too-high" for the
\* breaker's phrase, "network" for the word the run loop looks for.
MsgProviderFailed == <<"group translation failed: ", "Translation failed: ", "AI ", "API", " call failed">>

MsgRateTooHigh(groupError) == <<"group ", "rate-too-high", ", latest error: ">> \o groupError

MsgNoGroup == <<"no group was translated">>

MsgNotSaved == <<"translation file was not saved">>

MsgLanguageFailed(languageCode, error) == <<"translating ", languageCode, " failed: ">> \o error

Includes(message, part) == part \in Elems(message)

\* the run loop leaving at every failed language
IsSevereAlways(error) == TRUE

\* error.includes('API') || error.includes(<network>) || error.includes(<rate too high>)
IsSevere(error) ==
    Includes(error, "API") \/ Includes(error, "network") \/ Includes(error, "rate-too-high")

(***************************************************************************)
(* cli.ts: the classification of the "auto" command                        *)
(***************************************************************************)
\* the shouldTranslate decision of lines 141-175; FALSE is process.exit(0)
AutoShouldTranslate(isFirstTime, oldEnFile, enFile, d) ==
    LET isOldFileEmpty ==
            ~isFirstTime /\ oldEnFile.exists
                /\ (~oldEnFile.valid \/ Len(oldEnFile.data) = 0)
    IN  IF isFirstTime THEN TRUE
        ELSE IF isOldFileEmpty /\ d.missing # <<>> THEN TRUE
        ELSE IF d.added # <<>> \/ d.changed # <<>> THEN TRUE
        ELSE IF d.missing # <<>>
        THEN /\ enFile.exists /\ enFile.valid /\ oldEnFile.exists /\ oldEnFile.valid
             /\ Len(enFile.data) > Len(oldEnFile.data)
        ELSE FALSE

\* deleteFieldByPath for every deleted field on the backup data: [count, obj]
RECURSIVE DeleteFields(_, _)
DeleteFields(obj, fields) ==
    IF fields = <<>> THEN [count |-> 0, obj |-> obj]
    ELSE LET r == deleteFieldByPath(obj, Head(fields).path)
             rest == DeleteFields(r.obj, Tail(fields))
         IN  [count |-> (IF r.deleted THEN 1 ELSE 0) + rest.count, obj |-> rest.obj]

\* the backup file after "remove the deleted fields from en_old.json"
RemoveFromBackup(oldEnFile, fields) ==
    LET r == DeleteFields(readJsonFile(oldEnFile), fields)
    IN  IF r.count > 0 THEN saveJsonFile(r.obj) ELSE oldEnFile

\* diffResult.missing.map(key => ({ key, path: [key] }))
DeletedFieldsOf(missing) == [i \in 1..Len(missing) |-> [key |-> missing[i], path |-> <<missing[i]>>]]

\* the inner loop with a `break` after the first field that was not deleted
RECURSIVE SyncDeleteOneFailFast(_, _, _)
SyncDeleteOneFailFast(code, file, fields) ==
    IF fields = <<>> THEN [file |-> file, results |-> <<>>]
    ELSE LET r == deleteFieldFromLanguageFile(file, Head(fields).path)
             rest == IF r.deleted THEN SyncDeleteOneFailFast(code, r.file, Tail(fields))
                     ELSE [file |-> r.file, results |-> <<>>]
         IN  [file |-> rest.file,
              results |-> <<[language |-> code, success |-> r.deleted,
                             field |-> Head(fields).key]>> \o rest.results]

\* the inner loop of syncDeleteFieldsFromAllLanguages for one language file:
\* [file, results]
RECURSIVE SyncDeleteOne(_, _, _)
SyncDeleteOne(code, file, fields) ==
    IF fields = <<>> THEN [file |-> file, results |-> <<>>]
    ELSE LET r == deleteFieldFromLanguageFile(file, Head(fields).path)
             rest == SyncDeleteOne(code, r.file, Tail(fields))
         IN  [file |-> rest.file,
              results |-> <<[language |-> code, success |-> r.deleted,
                             field |-> Head(fields).key]>> \o rest.results]

(***************************************************************************)
(* State.                                                                  *)
(*   en, old, lang        the files en.json, temp/en_old.json and the      *)
(*                        target catalogs, by language code                *)
(*   pc, entry, force     the position of the run, its entry point ("auto" *)
(*                        is the CLI command, "lib" a call of translate()) *)
(*                        and the --force option                           *)
(*   autoDiff, deletedFields, deleteResult                                 *)
(*                        locals of the auto command                       *)
(*   translatableContent, diffResult, langIdx, groupIdx, translatedGroups, *)
(*   groupErrors, langError, result   locals of translate() and            *)
(*                        translateLanguage()                              *)
(*   exitCode             the exit code of the auto command, -1 before     *)
(*   providerCalls, written, faults, old0, lang0   history of the run: the *)
(*                        provider calls made, the files written, the      *)
(*                        provider responses that were not a complete      *)
(*                        translation, the files as the run found them     *)
(*   run                  1 in the run on the workspace as found, 2 in the  *)
(*                        run that follows it                              *)
(*   readOnly             the files that cannot be written: a write of one  *)
(*                        of them throws inside saveJsonFile               *)
(*   called, callArgs, callRes   one call of a pure function of the engine *)
(*                        on arguments drawn by the initial state          *)
(***************************************************************************)
\* the auto command before syncDeleteFieldsFromAllLanguages was called
NoDeleteResult == [called |-> FALSE, success |-> FALSE, results |-> <<>>]

VARIABLES en, old, lang, pc, entry, force, autoDiff, deletedFields, deleteResult,
          translatableContent, diffResult, langIdx, groupIdx, translatedGroups,
          groupErrors, langError, result, exitCode,
          providerCalls, written, faults, old0, lang0, readOnly, run,
          called, callArgs, callRes

fileVars == <<en, old, lang>>

autoVars == <<autoDiff, deletedFields, deleteResult>>

langVars == <<langIdx, groupIdx, translatedGroups, groupErrors, langError>>

histVars == <<providerCalls, written, faults, old0, lang0, readOnly, run>>

runVars == <<en, old, lang, pc, entry, force, autoDiff, deletedFields, deleteResult,
             translatableContent, diffResult, langIdx, groupIdx, translatedGroups,
             groupErrors, langError, result, exitCode,
             providerCalls, written, faults, old0, lang0, readOnly, run>>

callVars == <<called, callArgs, callRes>>

vars == <<runVars, callVars>>

\* getTargetLanguages(getLanguageFiles(dir)): the codes other than en, sorted
targetLanguages == <<"de", "fr", "it">>

TargetSet == Elems(targetLanguages)

\* the result object translate() starts from
EmptyResult ==
    [success |-> FALSE, translatedLanguages |-> <<>>, skippedLanguages |-> <<>>,
     errors |-> <<>>,
     summary |-> [totalLanguages |-> 0, translatedCount |-> 0,
                  skippedCount |-> 0, errorCount |-> 0]]

\* the run variables of a specification that runs no translation
RunUnused ==
    /\ en = NoFile /\ old = NoFile /\ lang = [L \in TargetSet |-> NoFile]
    /\ pc = "off" /\ entry = "none" /\ force = FALSE
    /\ autoDiff = NoDiff /\ deletedFields = <<>> /\ deleteResult = NoDeleteResult
    /\ translatableContent = EmptyObj /\ diffResult = NoDiff
    /\ langIdx = 0 /\ groupIdx = 0 /\ translatedGroups = EmptyObj
    /\ groupErrors = 0 /\ langError = <<>>
    /\ result = EmptyResult /\ exitCode = -1
    /\ providerCalls = 0 /\ written = {} /\ faults = 0
    /\ old0 = NoFile /\ lang0 = [L \in TargetSet |-> NoFile] /\ readOnly = {} /\ run = 1

\* the call variables of a specification that calls no pure function
CallUnused == called = "off" /\ callArgs = <<>> /\ callRes = <<>>

(***************************************************************************)
(* Bounded input domains                                                   *)
(***************************************************************************)
\* the largest number of entries of a generated mapping
MaxEntries == 2

SeqsUpTo(S, n) == UNION {[1..m -> S] : m \in 0..n}

\* the mappings of at most n entries with keys in K and values in V, in every order
Objs(K, V, n) ==
    {o \in SeqsUpTo({Entry(key, val) : key \in K, val \in V}, n) :
        Cardinality(KeySet(o)) = Len(o)}

GroupX1 == ObjVal(<<Entry("x", Str("1"))>>)

GroupX2 == ObjVal(<<Entry("x", Str("2"))>>)

GroupXY == ObjVal(<<Entry("x", Str("1")), Entry("y", Str("2"))>>)

\* the entries of the catalogs that are compared: texts under a and b, a text
\* or a nested group under g, GroupXY with its keys in the other order among
\* the groups
DiffEntries ==
    {Entry(key, val) : key \in {"a", "b"}, val \in {Str("1"), Str("2")}}
        \cup {Entry("g", val) :
                  val \in {Str("1"), GroupX1, GroupX2, GroupXY,
                           ObjVal(<<Entry("y", Str("2")), Entry("x", Str("1"))>>)}}

DiffCatalogs ==
    {o \in SeqsUpTo(DiffEntries, MaxEntries) : Cardinality(KeySet(o)) = Len(o)}

(***************************************************************************)
(* SpecDiff: diff(baseline, current) on every pair of generated catalogs   *)
(***************************************************************************)
InitDiff ==
    /\ RunUnused
    /\ called = "none"
    /\ callArgs \in DiffCatalogs \X DiffCatalogs
    /\ callRes = EmptyDiff

CallDiff ==
    /\ called = "none"
    /\ called' = "diff"
    /\ callRes' = diff(callArgs[1], callArgs[2])
    /\ UNCHANGED <<callArgs, runVars>>

NextDiff == CallDiff

SpecDiff == InitDiff /\ [][NextDiff]_vars

\* no key occurs twice in the array
NoDup(arr) == Cardinality(Elems(arr)) = Len(arr)

MergeCatalogs == Objs({"a", "g", DefaultGroup}, {Str("1"), GroupX1, GroupXY}, MaxEntries)

\* translated groups: every group is a non-empty mapping of texts
MergeGroups ==
    Objs({"a", "g", DefaultGroup},
         {ObjVal(<<Entry("x", Str("T"))>>),
          ObjVal(<<Entry("x", Str("T")), Entry("z", Str("T"))>>),
          ObjVal(<<Entry("g", Str("T"))>>)},
         MaxEntries)

InitMerge ==
    /\ RunUnused
    /\ called = "none"
    /\ callArgs \in {<<JsonFile(c), n>> : c \in MergeCatalogs, n \in MergeGroups}
    /\ callRes = EmptyObj

\* mergeGroupedContent(groupEnContent(catalog))
CallRoundTrip ==
    /\ called = "none"
    /\ called' = "roundtrip"
    /\ callRes' = mergeGroupedContent(groupEnContent(callArgs[1]))
    /\ UNCHANGED <<callArgs, runVars>>

\* updateLanguageFile(catalog, newGroupedContent); callRes is the file's new document
CallUpdate ==
    /\ called = "none"
    /\ called' = "update"
    /\ callRes' = readJsonFile(updateLanguageFile(callArgs[1], callArgs[2]))
    /\ UNCHANGED <<callArgs, runVars>>

\* the paths handed to the deletion: top-level keys, nested fields, a path
\* through a text, the empty path
DeletePaths ==
    {<<>>, <<"a">>, <<"g">>, <<"x">>, <<"g", "x">>, <<"g", "z">>, <<"a", "x">>}

\* deleteFieldFromLanguageFile(catalog, path), twice in a row on the same file;
\* callRes holds the file before, the path and the two outcomes
CallDelete ==
    /\ called = "none"
    /\ called' = "delete"
    /\ \E file \in {callArgs[1], NoFile}, path \in DeletePaths :
          LET once == deleteFieldFromLanguageFile(file, path)
              twice == deleteFieldFromLanguageFile(once.file, path)
          IN  callRes' = [file |-> file, path |-> path, once |-> once, twice |-> twice]
    /\ UNCHANGED <<callArgs, runVars>>

\* groupEnContent(catalog); groupExistingContent has the same body
CallGroup ==
    /\ called = "none"
    /\ called' = "group"
    /\ callRes' = groupEnContent(callArgs[1])
    /\ UNCHANGED <<callArgs, runVars>>

NextMerge == CallRoundTrip \/ CallUpdate \/ CallDelete \/ CallGroup

SpecMerge == InitMerge /\ [][NextMerge]_vars

\* every value of the catalog is a text or a mapping of texts
OneLevel(o) ==
    \A i \in 1..Len(o) :
        IsObject(o[i].v) => \A j \in 1..Len(o[i].v.ent) : o[i].v.ent[j].v.kind = "str"

\* C3: group round-trip.  For every catalog with at most one level of nesting,
\* mergeGroupedContent(group(catalog)) is the catalog (the same mapping).
GroupRoundTrip ==
    (called = "roundtrip" /\ OneLevel(callArgs[1].data)) =>
        SameMapping(callRes, callArgs[1].data)

\* the group of a persisted catalog, as groupExistingContent reads it back
GroupOf(catalog, groupName) == Get(groupExistingContent(JsonFile(catalog)), groupName)

GroupNames(catalog) == KeySet(groupExistingContent(JsonFile(catalog)))

StructuralReplace ==
    called = "update" =>
        \A g \in KeySet(callArgs[2]) \cap GroupNames(callArgs[1].data) :
            KeySet(GroupOf(callArgs[1].data, g).ent) # KeySet(Get(callArgs[2], g).ent)
                => GroupOf(callRes, g) = Get(callArgs[2], g)

\* the top-level keys that reassembling newGroups writes: a group's own name,
\* and for the default group the keys of its entries
WrittenKeys(newGroups) ==
    (KeySet(newGroups) \ {DefaultGroup})
        \cup (IF In(newGroups, DefaultGroup)
              THEN KeySet(Get(newGroups, DefaultGroup).ent) ELSE {})

MaxFaults == 2

GroupEmpty == ObjVal(EmptyObj)

Opt(key, val) == IF val = Undefined THEN <<>> ELSE <<Entry(key, val)>>

\* source catalogs: scalars a and b, a nested group g (of texts, empty, or with a
\* second level of nesting)
SourceCatalogs ==
    {Opt("a", av) \o Opt("b", bv) \o Opt("g", gv) :
        av \in {Undefined, Str("1"), Str("2")},
        bv \in {Undefined, Str("1")},
        gv \in {Undefined, GroupX1, GroupXY, GroupEmpty,
                ObjVal(<<Entry("x", ObjVal(<<Entry("y", Str("1"))>>))>>)}}

\* baseline catalogs, the empty one among them
BaselineCatalogs ==
    {Opt("a", av) \o Opt("b", bv) \o Opt("g", gv) :
        av \in {Undefined, Str("1")},
        bv \in {Undefined, Str("1")},
        gv \in {Undefined, GroupX1, GroupXY}}

\* target catalogs as the run finds them: the first language has one of them,
\* the other languages another or the same
TargetCatalogs ==
    {EmptyObj,
     <<Entry("a", Str("A")), Entry("b", Str("B")),
       Entry("g", ObjVal(<<Entry("x", Str("X")), Entry("y", Str("Y"))>>))>>}

\* the first language may also hold a part of the keys
FirstTargetCatalogs == TargetCatalogs \cup {<<Entry("b", Str("B"))>>}

Init ==
    /\ CallUnused
    /\ en \in {NoFile} \cup {JsonFile(c) : c \in SourceCatalogs}
    /\ old \in {NoFile, BadFile} \cup {JsonFile(c) : c \in BaselineCatalogs}
    /\ \E t \in {BadFile} \cup {JsonFile(c) : c \in FirstTargetCatalogs}, u \in TargetCatalogs :
          lang = [L \in TargetSet |-> IF L = targetLanguages[1] THEN t ELSE JsonFile(u)]
    /\ pc = "idle" /\ entry = "none" /\ force = FALSE
    /\ autoDiff = NoDiff /\ deletedFields = <<>> /\ deleteResult = NoDeleteResult
    /\ translatableContent = EmptyObj /\ diffResult = NoDiff
    /\ langIdx = 0 /\ groupIdx = 0 /\ translatedGroups = EmptyObj
    /\ groupErrors = 0 /\ langError = <<>>
    /\ result = EmptyResult /\ exitCode = -1
    /\ providerCalls = 0 /\ written = {} /\ faults = 0
    /\ old0 = old /\ lang0 = lang /\ readOnly = {} /\ run = 1

\* the name of the baseline file in written
BaselineFile == "en_old"

\* the mark in written that backupFile saved the source as the baseline
BackupMark == "en_old := en"

\* saveJsonFile(name, newFile) over file: the catch keeps a write that throws
\* from the caller and the file stays as it was
WriteFile(name, file, newFile) == IF name \in readOnly THEN file ELSE newFile

\* the files among names that a save changes
Wrote(names) == IF names \cap readOnly = {} THEN names ELSE {}

\* every listing taken to have a source catalog
DiscoveryNeverFails(enFile) == FALSE

\* the listing of the message directory has no en.json: `!enFile`
DiscoveryFailed(enFile) == ~enFile.exists

\* cli.ts: the auto command is started
StartAuto ==
    /\ pc = "idle"
    /\ \E f \in BOOLEAN : force' = f
    /\ entry' = "auto"
    /\ pc' = "auto_check"
    /\ UNCHANGED <<fileVars, autoVars, translatableContent, diffResult, langVars,
                   result, exitCode, histVars, callVars>>

\* translate() is called as a library function
StartLib ==
    /\ pc = "idle"
    /\ entry' = "lib"
    /\ pc' = "t_init"
    /\ UNCHANGED <<fileVars, force, autoVars, translatableContent, diffResult,
                   langVars, result, exitCode, histVars, callVars>>

\* syncDeleteFieldsFromAllLanguages: per language code [file, results]
SyncDelete(files, fields) ==
    [L \in TargetSet |-> SyncDeleteOne(L, files[L], fields)]

SyncSuccess(sync) ==
    \A L \in TargetSet : \A i \in 1..Len(sync[L].results) : sync[L].results[i].success

\* the results array: the results of the language files in their order
RECURSIVE SyncResults(_, _)
SyncResults(sync, codes) ==
    IF codes = <<>> THEN <<>>
    ELSE sync[Head(codes)].results \o SyncResults(sync, Tail(codes))

\* the value syncDeleteFieldsFromAllLanguages returns
syncDeleteFieldsFromAllLanguages(files, fields) ==
    [called |-> TRUE,
     success |-> SyncSuccess(SyncDelete(files, fields)),
     results |-> SyncResults(SyncDelete(files, fields), targetLanguages)]

\* cli.ts lines 29-176: diff, deletion propagation, classification
AutoCheck ==
    /\ pc = "auto_check"
    /\ IF DiscoveryFailed(en)
       THEN /\ pc' = "done" /\ exitCode' = 1
            /\ UNCHANGED <<fileVars, autoVars, written>>
       ELSE IF force
       THEN /\ pc' = "t_init"
            /\ UNCHANGED <<fileVars, autoVars, written, exitCode>>
       ELSE LET d == simpleDiff(old, en)
                fields == DeletedFieldsOf(d.missing)
                sync == SyncDelete(lang, fields)
                old1 == IF d.missing # <<>> /\ SyncSuccess(sync)
                        THEN WriteFile(BaselineFile, old, RemoveFromBackup(old, fields))
                        ELSE old
                go == AutoShouldTranslate(~old.exists, old1, en, d)
            IN  /\ autoDiff' = Computed(d)
                /\ deletedFields' = fields
                /\ deleteResult' = IF d.missing # <<>>
                                   THEN syncDeleteFieldsFromAllLanguages(lang, fields)
                                   ELSE NoDeleteResult
                /\ lang' = [L \in TargetSet |-> WriteFile(L, lang[L], sync[L].file)]
                /\ old' = old1
                /\ written' = written
                      \cup {L \in TargetSet \ readOnly : sync[L].file # lang[L]}
                      \cup (IF old1 # old THEN {BaselineFile} ELSE {})
                /\ pc' = IF go THEN "t_init" ELSE "done"
                /\ exitCode' = IF go THEN exitCode ELSE 0
                /\ UNCHANGED en
    /\ UNCHANGED <<entry, force, translatableContent, diffResult, langVars, result,
                   providerCalls, faults, old0, lang0, readOnly, run, callVars>>

\* the skipped result without its count
SkippedResultUncounted ==
    [EmptyResult EXCEPT !.success = TRUE,
                        !.skippedLanguages = targetLanguages,
                        !.summary.totalLanguages = Len(targetLanguages)]

\* the result of a translate() that ends with every target skipped
SkippedResult ==
    [EmptyResult EXCEPT !.success = TRUE,
                        !.skippedLanguages = targetLanguages,
                        !.summary.totalLanguages = Len(targetLanguages),
                        !.summary.skippedCount = Len(targetLanguages)]

\* where translate() returns to: the auto command goes on, a library call is done
Returned == IF entry = "auto" THEN "t_return" ELSE "done"

\* translate.ts lines 334-372: initialisation and checkTranslationNeeds
TranslateInit ==
    /\ pc = "t_init"
    /\ IF DiscoveryFailed(en)
       THEN /\ result' = [EmptyResult EXCEPT !.errors = <<<<"en.json not found">>>>]
            /\ pc' = Returned
            /\ UNCHANGED <<translatableContent, diffResult, langVars>>
       ELSE IF Len(targetLanguages) = 0
       THEN /\ result' = [EmptyResult EXCEPT !.success = TRUE]
            /\ pc' = Returned
            /\ UNCHANGED <<translatableContent, diffResult, langVars>>
       ELSE LET needs == checkTranslationNeeds(en, old)
            IN  /\ translatableContent' = needs.translatableContent
                /\ diffResult' = needs.diffResult
                /\ IF ~needs.shouldTranslate \/ TotalItems(needs.translatableContent) = 0
                   THEN /\ result' = SkippedResult
                        /\ pc' = Returned
                        /\ UNCHANGED langVars
                   ELSE /\ result' = [EmptyResult EXCEPT
                                         !.summary.totalLanguages = Len(targetLanguages)]
                        /\ pc' = "t_group"
                        /\ langIdx' = 1 /\ groupIdx' = 1
                        /\ translatedGroups' = EmptyObj
                        /\ groupErrors' = 0 /\ langError' = <<>>
    /\ UNCHANGED <<fileVars, entry, force, autoVars, exitCode, histVars, callVars>>

\* the group translateLanguage is at
CurrentGroup == translatableContent[groupIdx]

\* the provider's possible responses to a group: the complete translation, a
\* failure, or a translation that omits the first key and adds an unrequested
\* one; at most MaxFaults responses of a run are not the complete translation
Responses(groupData) ==
    {ProviderOk({}, FALSE)}
        \cup (IF faults < MaxFaults
              THEN {ProviderFail, ProviderOk({Head(groupData).k}, TRUE)}
              ELSE {})

\* the group loop never left
GroupsNeverDone == FALSE

\* the group loop left after the first group
GroupsDoneAfterFirst == groupIdx > 1

\* translate.ts line 204: the loop over Object.entries(translatableContent) has
\* gone through every group
GroupsDone == groupIdx > Len(translatableContent)

\* translate.ts lines 208-212: an empty group is skipped without a provider call
SkipEmptyGroup ==
    /\ pc = "t_group" /\ langError = <<>>
    /\ groupIdx <= Len(translatableContent)
    /\ Len(CurrentGroup.v.ent) = 0
    /\ groupIdx' = groupIdx + 1
    /\ UNCHANGED <<fileVars, pc, entry, force, autoVars, translatableContent, diffResult,
                   langIdx, translatedGroups, groupErrors, langError, result,
                   exitCode, histVars, callVars>>

\* translate.ts lines 214-253: one group is sent to the provider and the
\* response handled
TranslateGroup ==
    /\ pc = "t_group" /\ langError = <<>>
    /\ groupIdx <= Len(translatableContent)
    /\ Len(CurrentGroup.v.ent) # 0
    /\ \E response \in Responses(CurrentGroup.v.ent) :
          LET r == translateTextObject(CurrentGroup.v.ent, response)
              failed == r.threw \/ Len(r.value) = 0
              groupError == IF r.threw THEN MsgProviderFailed
                            ELSE <<"group ", CurrentGroup.k, " translated to nothing">>
          IN  /\ faults' = IF response = ProviderOk({}, FALSE) THEN faults ELSE faults + 1
              /\ IF failed
                 THEN /\ groupErrors' = groupErrors + 1
                      /\ UNCHANGED translatedGroups
                      /\ IF BreakerTrips(groupErrors + 1, translatedGroups)
                         THEN /\ langError' = MsgRateTooHigh(groupError)
                              /\ UNCHANGED groupIdx
                         ELSE /\ groupIdx' = groupIdx + 1
                              /\ UNCHANGED langError
                 ELSE /\ translatedGroups' = Put(translatedGroups, CurrentGroup.k, ObjVal(r.value))
                      /\ groupIdx' = groupIdx + 1
                      /\ UNCHANGED <<groupErrors, langError>>
    /\ providerCalls' = providerCalls + 1
    /\ UNCHANGED <<fileVars, pc, entry, force, autoVars, translatableContent, diffResult,
                   langIdx, result, exitCode, written, old0, lang0, readOnly, run, callVars>>

\* every language written to the catalog of the first target
LanguageFileOfFirst(languageCode) == targetLanguages[1]

\* translate.ts line 262: resolve(process.cwd(), 'message', `${languageCode}.json`),
\* the catalog that translateLanguage updates
LanguageFile(languageCode) == languageCode

\* translateLanguage without the test of lines 257-259 for an empty translatedGroups
LanguageErrorBreakerOnly(languageCode) ==
    IF langError # <<>> THEN MsgLanguageFailed(languageCode, langError) ELSE <<>>

\* the error translateLanguage ends with, <<>> when it succeeds
LanguageError(languageCode) ==
    IF langError # <<>> THEN MsgLanguageFailed(languageCode, langError)
    ELSE IF Len(translatedGroups) = 0 THEN MsgLanguageFailed(languageCode, MsgNoGroup)
    ELSE <<>>

\* translate.ts lines 262-275: updateLanguageFile, then `existsSync` of the
\* language file.  saveJsonFile swallows a write error, so the only failed save
\* translateLanguage sees is that of a file that is not there afterwards: a
\* file that was absent and whose write failed.  Such a failure counts as a
\* fault of the run.
SaveOutcomes(languageCode) ==
    IF LanguageError(languageCode) # <<>> \/ lang[languageCode].exists THEN {TRUE}
    ELSE IF languageCode \in readOnly THEN {FALSE}
    ELSE IF faults < MaxFaults THEN {TRUE, FALSE}
    ELSE {TRUE}

\* translate.ts lines 256-296 and 383-399: translateLanguage ends (the groups
\* are done or the breaker tripped), the catalog is updated on success, and
\* translate() counts the language and goes on, or leaves the loop
FinishLanguage ==
    /\ pc = "t_group"
    /\ langError # <<>> \/ GroupsDone
    /\ \E saved \in SaveOutcomes(targetLanguages[langIdx]) :
          LET languageCode == targetLanguages[langIdx]
              error == IF saved THEN LanguageError(languageCode)
                       ELSE MsgLanguageFailed(languageCode, MsgNotSaved)
              stop == (error # <<>> /\ IsSevere(error)) \/ langIdx = Len(targetLanguages)
          IN  /\ IF error = <<>>
                 THEN /\ lang' = [lang EXCEPT ![LanguageFile(languageCode)] =
                                      WriteFile(LanguageFile(languageCode), @,
                                          updateLanguageFile(@, translatedGroups))]
                      /\ written' = written \cup Wrote({LanguageFile(languageCode)})
                      /\ result' = [result EXCEPT
                                       !.translatedLanguages = Append(@, languageCode),
                                       !.summary.translatedCount = @ + 1]
                 ELSE /\ result' = [result EXCEPT
                                       !.errors = Append(@, error),
                                       !.summary.errorCount = @ + 1]
                      /\ UNCHANGED <<lang, written>>
              /\ faults' = IF saved THEN faults ELSE faults + 1
              /\ pc' = IF stop THEN "t_finish" ELSE "t_group"
              /\ langIdx' = IF stop THEN 0 ELSE langIdx + 1
              /\ groupIdx' = IF stop THEN 0 ELSE 1
    /\ translatedGroups' = EmptyObj
    /\ groupErrors' = 0
    /\ langError' = <<>>
    /\ UNCHANGED <<en, old, entry, force, autoVars, translatableContent, diffResult,
                   exitCode, providerCalls, old0, lang0, readOnly, run, callVars>>

\* the baseline saved after every run that reached the end of the loop
ShouldBackupAlways(res) == TRUE

\* the baseline saved only when no language failed
ShouldBackupIfNoError(res) ==
    res.summary.translatedCount > 0 /\ res.summary.errorCount = 0

\* if (result.summary.translatedCount > 0)
ShouldBackup(res) == res.summary.translatedCount > 0

\* translate.ts lines 402-445: the baseline is saved when a language was
\* translated, and the result returned
TranslateFinish ==
    /\ pc = "t_finish"
    /\ IF ShouldBackup(result)
       THEN /\ old' = WriteFile(BaselineFile, old, backupFile(en))
            /\ written' = written \cup Wrote({BaselineFile, BackupMark})
       ELSE UNCHANGED <<old, written>>
    /\ result' = [result EXCEPT !.success =
                     result.summary.errorCount = 0 /\ result.summary.translatedCount > 0]
    /\ pc' = Returned
    /\ UNCHANGED <<en, lang, entry, force, autoVars, translatableContent, diffResult,
                   langVars, exitCode, providerCalls, faults, old0, lang0, readOnly, run, callVars>>

\* cli.ts lines 187-226: the auto command backs the source up after a
\* successful translate() and exits
AutoFinish ==
    /\ pc = "t_return"
    /\ IF result.success
       THEN /\ old' = WriteFile(BaselineFile, old,
                                 RemoveFromBackup(backupFile(en), deletedFields))
            /\ written' = written \cup Wrote({BaselineFile, BackupMark})
            /\ exitCode' = 0
       ELSE /\ exitCode' = 1
            /\ UNCHANGED <<old, written>>
    /\ pc' = "done"
    /\ UNCHANGED <<en, lang, entry, force, autoVars, translatableContent, diffResult,
                   langVars, result, providerCalls, faults, old0, lang0, readOnly, run, callVars>>

\* the largest number of runs in a row on one workspace
MaxRuns == 2

\* the program is started again on the workspace as a run that translated a
\* language and saved the baseline has left it, the source unchanged
Rerun ==
    /\ pc = "done" /\ run < MaxRuns
    /\ result.summary.translatedCount >= 1
    /\ BackupMark \in written
    /\ run' = run + 1
    /\ pc' = "idle" /\ entry' = "none" /\ force' = FALSE
    /\ autoDiff' = NoDiff /\ deletedFields' = <<>> /\ deleteResult' = NoDeleteResult
    /\ translatableContent' = EmptyObj /\ diffResult' = NoDiff
    /\ langIdx' = 0 /\ groupIdx' = 0 /\ translatedGroups' = EmptyObj
    /\ groupErrors' = 0 /\ langError' = <<>>
    /\ result' = EmptyResult /\ exitCode' = -1
    /\ providerCalls' = 0 /\ written' = {}
    /\ old0' = old /\ lang0' = lang
    /\ UNCHANGED <<fileVars, faults, readOnly, callVars>>

Next ==
    \/ StartAuto
    \/ StartLib
    \/ AutoCheck
    \/ TranslateInit
    \/ SkipEmptyGroup
    \/ TranslateGroup
    \/ FinishLanguage
    \/ TranslateFinish
    \/ AutoFinish
    \/ Rerun

Spec == Init /\ [][Next]_vars

(***************************************************************************)
(* SpecProvider: translateTextObject on generated groups of texts and      *)
(* every response of the provider to them.                                 *)
(* callArgs = [textObject, response].                                      *)
(***************************************************************************)
\* the groups of texts sent to the provider
TextObjects == {o \in Objs({"x", "y", "z"}, {Str("1"), Str("2")}, MaxEntries) : Len(o) > 0}

\* every response to a request: a failure, or a text of any kind whose
\* object omits any of the keys and possibly holds an unrequested one
AllResponses(textObject) ==
    {ProviderFail}
        \cup {ProviderText(text, omitKeys, withExtra) :
                 text \in ResponseTexts,
                 omitKeys \in SUBSET KeySet(textObject), withExtra \in BOOLEAN}

InitProvider ==
    /\ RunUnused
    /\ called = "none"
    /\ \E textObject \in TextObjects :
          \E response \in AllResponses(textObject) :
             callArgs = [textObject |-> textObject, response |-> response]
    /\ callRes = [threw |-> FALSE, value |-> EmptyObj, stages |-> <<>>, path |-> "none"]

\* translateTextObject(textObject, ...) with the provider answering response
CallTranslate ==
    /\ called = "none"
    /\ called' = "translate"
    /\ callRes' = translateTextObject(callArgs.textObject, callArgs.response)
    /\ UNCHANGED <<callArgs, runVars>>

NextProvider == CallTranslate

SpecProvider == InitProvider /\ [][NextProvider]_vars

(***************************************************************************)
(* SpecGroups: the same run on source catalogs of up to four nested groups *)
(* (one of them possibly empty), first run, target catalogs that are empty *)
(* or whose file is not there when the run gets to it: the inputs on which *)
(* the group loop of translateLanguage has failures before and after       *)
(* translated groups, and on which a save can be seen to fail.             *)
(***************************************************************************)
GroupCatalogs ==
    {Opt("g", gv) \o Opt("h", hv) \o Opt("i", iv) \o Opt("j", jv) :
        gv \in {Undefined, GroupX1, GroupEmpty},
        hv \in {Undefined, GroupX1},
        iv \in {Undefined, GroupX1},
        jv \in {Undefined, GroupXY}}

InitGroups ==
    /\ CallUnused
    /\ en \in {JsonFile(c) : c \in GroupCatalogs}
    /\ old = NoFile
    /\ lang \in [TargetSet -> {JsonFile(EmptyObj), NoFile}]
    /\ pc = "idle" /\ entry = "none" /\ force = FALSE
    /\ autoDiff = NoDiff /\ deletedFields = <<>> /\ deleteResult = NoDeleteResult
    /\ translatableContent = EmptyObj /\ diffResult = NoDiff
    /\ langIdx = 0 /\ groupIdx = 0 /\ translatedGroups = EmptyObj
    /\ groupErrors = 0 /\ langError = <<>>
    /\ result = EmptyResult /\ exitCode = -1
    /\ providerCalls = 0 /\ written = {} /\ faults = 0
    /\ old0 = old /\ lang0 = lang /\ readOnly = {} /\ run = 1

SpecGroups == InitGroups /\ [][Next]_vars

(***************************************************************************)
(* Runs on a workspace in which one file, a target catalog or the          *)
(* baseline, is there and cannot be written.                               *)
(***************************************************************************)
WriteSources ==
    {<<Entry("a", Str("1"))>>,
     <<Entry("a", Str("2")), Entry("g", GroupX1)>>,
     <<Entry("a", Str("1")), Entry("g", GroupEmpty)>>}

WriteBaseline == <<Entry("a", Str("1")), Entry("b", Str("1"))>>

InitWrites ==
    /\ CallUnused
    /\ en \in {JsonFile(c) : c \in WriteSources}
    /\ old \in {NoFile, JsonFile(WriteBaseline)}
    /\ \E t \in TargetCatalogs : lang = [L \in TargetSet |-> JsonFile(t)]
    /\ readOnly \in {{f} : f \in TargetSet \cup {BaselineFile}} /\ run = 1
    /\ pc = "idle" /\ entry = "none" /\ force = FALSE
    /\ autoDiff = NoDiff /\ deletedFields = <<>> /\ deleteResult = NoDeleteResult
    /\ translatableContent = EmptyObj /\ diffResult = NoDiff
    /\ langIdx = 0 /\ groupIdx = 0 /\ translatedGroups = EmptyObj
    /\ groupErrors = 0 /\ langError = <<>>
    /\ result = EmptyResult /\ exitCode = -1
    /\ providerCalls = 0 /\ written = {} /\ faults = 0
    /\ old0 = old /\ lang0 = lang

SpecWrites == InitWrites /\ [][Next]_vars

(***************************************************************************)
(* SpecLive: runs that go on as long as a step can be taken.  translate()  *)
(* awaits one provider call at a time and has no other place to wait, so   *)
(* weak fairness of the next step is the condition that every provider     *)
(* call returns or fails.  The workspaces have a source that is absent or  *)
(* present, a baseline absent, malformed, equal to a source or different   *)
(* from every source, and target catalogs that are all empty or all absent.*)
(***************************************************************************)
InitLive ==
    /\ CallUnused
    /\ en \in {NoFile} \cup {JsonFile(c) : c \in WriteSources}
    /\ old \in {NoFile, BadFile, JsonFile(WriteBaseline), JsonFile(<<Entry("a", Str("1"))>>)}
    /\ \E f \in {NoFile, JsonFile(EmptyObj)} : lang = [L \in TargetSet |-> f]
    /\ readOnly = {} /\ run = 1
    /\ pc = "idle" /\ entry = "none" /\ force = FALSE
    /\ autoDiff = NoDiff /\ deletedFields = <<>> /\ deleteResult = NoDeleteResult
    /\ translatableContent = EmptyObj /\ diffResult = NoDiff
    /\ langIdx = 0 /\ groupIdx = 0 /\ translatedGroups = EmptyObj
    /\ groupErrors = 0 /\ langError = <<>>
    /\ result = EmptyResult /\ exitCode = -1
    /\ providerCalls = 0 /\ written = {} /\ faults = 0
    /\ old0 = old /\ lang0 = lang

SpecLive == InitLive /\ [][Next]_vars /\ WF_vars(Next)

(***************************************************************************)
(* Properties of a run                                                     *)
(***************************************************************************)
\* the diff of the baseline and the source as the run found them
StartDiff == simpleDiff(old0, en)

DiffKeys(d) == Elems(d.added) \cup Elems(d.changed) \cup Elems(d.missing)

\* the top-level keys of the source that a translatable content carries
ContentKeys(content) == WrittenKeys(content)

\* C1: untouched content is not clobbered by an incremental run.  At the end of
\* a run that computed a diff, for every language translated, every top-level
\* entry the catalog had before the run whose key is not added, changed or
\* missing in the diff is still there with the value it had.
UntouchedContentKept ==
    (pc = "done" /\ diffResult.computed) =>
        \A i \in 1..Len(result.translatedLanguages) :
            LET L == result.translatedLanguages[i]
            IN  \A key \in KeySet(lang0[L].data) \ DiffKeys(StartDiff) :
                    Get(lang[L].data, key) = Get(lang0[L].data, key)

BaselineOnPartialSuccess ==
    (pc = "done" /\ en.exists) =>
        /\ result.summary.translatedCount = Cardinality(Elems(result.translatedLanguages))
        /\ result.summary.errorCount = Len(result.errors)
        /\ Elems(result.translatedLanguages) \subseteq written
        /\ result.summary.translatedCount + result.summary.errorCount
              <= Len(targetLanguages)
        /\ result.summary.translatedCount >= 1 => old = JsonFile(readJsonFile(en))

\* two languages translated, one failed, the baseline updated to the source
BaselineOnPartialSuccessWitness ==
    /\ pc = "done"
    /\ result.summary.translatedCount = 2
    /\ result.summary.errorCount = 1
    /\ old = JsonFile(readJsonFile(en))
    /\ old # old0

\* the content keys the next run's diff would report again
StillPending == Elems(simpleDiff(old, en).added) \cup Elems(simpleDiff(old, en).changed)

\* C8: the baseline never jumps ahead, as claimed.  If the run had content to
\* translate and some target language was not translated and merged, the
\* baseline still differs from the source on that content.
BaselineNeverAhead ==
    (pc = "done" /\ TotalItems(translatableContent) > 0
        /\ \E L \in TargetSet : L \notin Elems(result.translatedLanguages))
      => ContentKeys(translatableContent) \subseteq StillPending

\* C8 as amended: if the run had content to translate and no target language
\* was translated and merged, the baseline still differs from the source on
\* that content, so the next run's diff reports it again.
BaselineNeverAheadAmended ==
    (pc = "done" /\ TotalItems(translatableContent) > 0
        /\ result.summary.translatedCount = 0)
      => ContentKeys(translatableContent) \subseteq StillPending

\* a run with content to translate in which no language was translated
BaselineNeverAheadWitness ==
    /\ pc = "done"
    /\ TotalItems(translatableContent) > 0
    /\ providerCalls > 0
    /\ result.summary.translatedCount = 0
    /\ ContentKeys(translatableContent) # {}

\* C9: first-run classification.  When translate() starts with the baseline
\* absent or without top-level keys, no diff is computed, the translatable
\* content is the grouping of the whole source, and the translation starts
\* unless that content has no item.
FirstRunClassification ==
    [][(pc = "t_init" /\ en.exists
           /\ (~old.exists \/ (old.valid /\ Len(old.data) = 0))) =>
          /\ diffResult' = NoDiff
          /\ translatableContent' = groupEnContent(en)
          /\ pc' = IF TotalItems(groupEnContent(en)) > 0 THEN "t_group" ELSE Returned
      ]_vars

\* a first run caused by a baseline that exists and is empty
FirstRunClassificationWitness ==
    /\ pc = "t_group"
    /\ old.exists /\ Len(old.data) = 0
    /\ diffResult = NoDiff
    /\ translatableContent = groupEnContent(en)
    /\ Len(translatableContent) > 1

\* the baseline has a top-level key and the source does not differ from it
NothingChanged ==
    /\ old.exists /\ old.valid /\ Len(old.data) > 0
    /\ simpleDiff(old, en) = EmptyDiff

ContentValue(content, key) ==
    IF key # DefaultGroup /\ In(content, key) THEN Get(content, key)
    ELSE IF In(content, DefaultGroup) THEN Get(Get(content, DefaultGroup).ent, key)
    ELSE Undefined

\* C11: incremental content.  When translate() starts with a non-empty baseline
\* and the diff has an added or changed key, the translatable content carries
\* exactly the keys in added and changed, each with the value it has in the
\* current source catalog.
IncrementalContent ==
    [][(pc = "t_init" /\ en.exists /\ old.exists /\ old.valid /\ Len(old.data) > 0
           /\ (simpleDiff(old, en).added # <<>> \/ simpleDiff(old, en).changed # <<>>)) =>
          LET d == simpleDiff(old, en)
          IN  /\ ContentKeys(translatableContent') = Elems(d.added) \cup Elems(d.changed)
              /\ \A key \in ContentKeys(translatableContent') :
                    ContentValue(translatableContent', key) = Get(en.data, key)
      ]_vars

\* the run found a non-empty baseline whose diff with the source has missing
\* keys only
DeletionOnly ==
    /\ en.exists
    /\ old0.exists /\ old0.valid /\ Len(old0.data) > 0
    /\ StartDiff.added = <<>> /\ StartDiff.changed = <<>>
    /\ StartDiff.missing # <<>>

\* no target catalog has any of the keys
AbsentFromTargets(keys) ==
    \A L \in TargetSet : KeySet(lang[L].data) \cap keys = {}

\* C12: deletion-only run.  A run of the auto command that finds only missing
\* keys ends successfully without a provider call and with nothing to
\* translate, and the missing keys are gone from every target catalog and from
\* the baseline.
DeletionOnlyRun ==
    (pc = "done" /\ entry = "auto" /\ ~force /\ DeletionOnly) =>
        /\ providerCalls = 0
        /\ exitCode = 0
        /\ TotalItems(translatableContent) = 0
        /\ AbsentFromTargets(Elems(StartDiff.missing))
        /\ KeySet(old.data) \cap Elems(StartDiff.missing) = {}

\* C13: deletion propagation.  The step of the auto command that finds missing
\* keys leaves none of them in any target catalog nor in the baseline, and
\* does not modify the source catalog.
DeletionPropagation ==
    [][(pc = "auto_check" /\ en.exists /\ ~force /\ simpleDiff(old, en).missing # <<>>) =>
          LET missing == Elems(simpleDiff(old, en).missing)
          IN  /\ \A L \in TargetSet : KeySet(lang'[L].data) \cap missing = {}
              /\ KeySet(old'.data) \cap missing = {}
              /\ en' = en
      ]_vars

\* the auto command has passed its deletion step
Propagated == entry = "auto" /\ ~force /\ en.exists /\ pc \notin {"idle", "auto_check"}

\* C14: baseline deletion is immediate and unconditional.  From the deletion
\* step of the auto command on, whatever the target deletions reported and
\* whatever the translation does afterwards, the baseline holds none of the
\* keys the run found missing.
BaselineDeletionUnconditional ==
    (Propagated /\ StartDiff.missing # <<>>) =>
        KeySet(old.data) \cap Elems(StartDiff.missing) = {}

RECURSIVE HasPath(_, _)
HasPath(obj, path) ==
    /\ path # <<>>
    /\ In(obj, path[1])
    /\ Len(path) > 1 => /\ IsObject(Get(obj, path[1]))
                        /\ HasPath(Get(obj, path[1]).ent, Tail(path))

BestEffortFanOut ==
    deleteResult.called =>
        LET n == Len(deletedFields)
            res == deleteResult.results
        IN  /\ Len(res) = Len(targetLanguages) * n
            /\ \A i \in 1..Len(targetLanguages), j \in 1..n :
                  LET r == res[(i - 1) * n + j]
                      L == targetLanguages[i]
                      key == deletedFields[j].key
                  IN  /\ r.language = L /\ r.field = key
                      /\ r.success = In(lang0[L].data, key)
                      /\ ~In(lang[L].data, key)
            /\ deleteResult.success = (\A k \in 1..Len(res) : res[k].success)

\* in one language file a pair failed and a later pair succeeded
BestEffortFanOutWitness ==
    /\ deleteResult.called /\ ~deleteResult.success
    /\ \E k1, k2 \in 1..Len(deleteResult.results) :
          /\ k1 < k2
          /\ deleteResult.results[k1].language = deleteResult.results[k2].language
          /\ ~deleteResult.results[k1].success
          /\ deleteResult.results[k2].success
          /\ \E k3 \in 1..Len(deleteResult.results) :
                k2 < k3 /\ deleteResult.results[k3].success

\* C18: group-level circuit breaker.  When a group of a language fails and
\* the failed groups are then at least 2 and more than half of the failed and
\* translated groups, translateLanguage stops there: the language's error is
\* set, the next step sends nothing to the provider, writes no catalog and
\* reports the language as failed with the breaker's message.  Below that
\* threshold the failure is only counted and the loop goes to the next group.
CircuitBreaker ==
    [][/\ (pc = "t_group" /\ groupErrors' = groupErrors + 1) =>
             IF groupErrors' >= 2
                   /\ 2 * groupErrors' > groupErrors' + Len(translatedGroups')
             THEN langError' # <<>>
             ELSE /\ langError' = <<>>
                  /\ groupIdx' = groupIdx + 1
                  /\ pc' = "t_group" /\ langIdx' = langIdx
       /\ langError # <<>> =>
             /\ providerCalls' = providerCalls
             /\ lang' = lang
             /\ result'.summary.errorCount = result.summary.errorCount + 1
             /\ result'.translatedLanguages = result.translatedLanguages
             /\ Includes(result'.errors[Len(result'.errors)], "rate-too-high")
      ]_vars

\* the breaker tripped after a translated group, with a group of the language
\* still to come
CircuitBreakerWitness ==
    /\ pc = "t_group" /\ langError # <<>>
    /\ Len(translatedGroups) >= 1
    /\ groupIdx < Len(translatableContent)
    /\ Len(translatableContent[groupIdx + 1].v.ent) > 0

\* C19: run abort on provider failure.  Whenever a language is reported as
\* failed after the provider call failed for a group of it, the language loop
\* is left: no later language is attempted.
AbortOnProviderFailure ==
    [][(/\ pc = "t_group" /\ groupErrors > 0
        /\ result'.summary.errorCount = result.summary.errorCount + 1) =>
           pc' = "t_finish"
      ]_vars

\* C20: non-provider language failures are isolated.  When a language fails
\* with no provider call of it having failed (its catalog file could not be
\* saved) and it is not the last language, the run goes on with the first
\* group of the next language.
FailureIsolation ==
    [][(/\ pc = "t_group" /\ groupErrors = 0 /\ langError = <<>>
        /\ result'.summary.errorCount = result.summary.errorCount + 1
        /\ langIdx < Len(targetLanguages)) =>
           /\ pc' = "t_group"
           /\ langIdx' = langIdx + 1 /\ groupIdx' = 1
           /\ result'.errors[Len(result'.errors)]
                 = MsgLanguageFailed(targetLanguages[langIdx], MsgNotSaved)
      ]_vars

\* a run in which the first language failed when its file was saved and a
\* later language was translated and saved
FailureIsolationWitness ==
    /\ pc = "done"
    /\ providerCalls > 0
    /\ Len(result.errors) >= 1
    /\ result.errors[1] = MsgLanguageFailed(targetLanguages[1], MsgNotSaved)
    /\ \E i \in 2..Len(targetLanguages) :
          /\ targetLanguages[i] \in Elems(result.translatedLanguages)
          /\ lang[targetLanguages[i]] # lang0[targetLanguages[i]]

TranslatedCatalog(catalog) ==
    [i \in 1..Len(catalog) |->
        Entry(catalog[i].k,
              ObjVal([j \in 1..Len(catalog[i].v.ent) |->
                         Entry(catalog[i].v.ent[j].k, TranslatedText)]))]

\* a run that started with the baseline absent or empty, a source of one
\* nested group of texts and empty target catalogs, and in which every
\* provider response was a complete translation
FirstRunOneGroup ==
    /\ pc = "done" /\ faults = 0
    /\ ~old0.exists \/ (old0.valid /\ Len(old0.data) = 0)
    /\ Len(en.data) = 1 /\ IsObject(en.data[1].v) /\ OneLevel(en.data)
    /\ \A L \in TargetSet : lang0[L].exists /\ lang0[L].data = EmptyObj

NestedKeys(o) ==
    UNION {KeySet(o[i].v.ent) : i \in {j \in 1..Len(o) : IsObject(o[j].v)}}

\* C23: shallow change detection.  A top-level key of both catalogs is in
\* changed iff the serialization of its whole value differs, which is iff the
\* value differs (in a text, in a nested field, in the order of the nested
\* keys); changed holds top-level keys only, never the key of a nested field;
\* a key whose value is the same in both is in none of the three sets.
ShallowChange ==
    called = "diff" =>
        LET B == callArgs[1]
            C == callArgs[2]
            changed == Elems(callRes.changed)
        IN  /\ \A key \in KeySet(B) \cap KeySet(C) :
                  /\ key \in changed
                        <=> JSONStringify(Get(B, key)) # JSONStringify(Get(C, key))
                  /\ key \in changed <=> Get(B, key) # Get(C, key)
                  /\ Get(B, key) = Get(C, key) =>
                        key \notin Elems(callRes.added) \cup changed
                                      \cup Elems(callRes.missing)
            /\ changed \subseteq KeySet(B) \cap KeySet(C)
            /\ changed \cap (NestedKeys(B) \cup NestedKeys(C)) = {}

\* one field of a nested group was edited, another key is unchanged
ShallowChangeWitness ==
    /\ called = "diff"
    /\ In(callArgs[1], "g") /\ Get(callArgs[1], "g") = GroupX1
    /\ In(callArgs[2], "g") /\ Get(callArgs[2], "g") = GroupX2
    /\ callRes.changed = <<"g">>
    /\ \E key \in KeySet(callArgs[1]) \cap KeySet(callArgs[2]) :
          Get(callArgs[1], key) = Get(callArgs[2], key)

IsGrouping(newGroups) ==
    (KeySet(newGroups) \ {DefaultGroup})
        \cap (IF In(newGroups, DefaultGroup)
              THEN KeySet(Get(newGroups, DefaultGroup).ent) ELSE {}) = {}

\* in the persisted result the group g has the key set and the values of the
\* incoming group
IncomingWins(g) ==
    /\ g \in GroupNames(callRes)
    /\ KeySet(GroupOf(callRes, g).ent) = KeySet(Get(callArgs[2], g).ent)
    /\ \A key \in KeySet(Get(callArgs[2], g).ent) :
          Get(GroupOf(callRes, g).ent, key) = Get(Get(callArgs[2], g).ent, key)

\* the incoming groups that exist in the target with exactly the same key set
SameKeySetGroups ==
    {g \in KeySet(callArgs[2]) \cap GroupNames(callArgs[1].data) :
        KeySet(GroupOf(callArgs[1].data, g).ent) = KeySet(Get(callArgs[2], g).ent)}

InsertNewGroup ==
    (/\ called = "update"
     /\ IsGrouping(callArgs[2]) /\ callArgs[2] # <<>>
     /\ KeySet(callArgs[2]) \cap GroupNames(callArgs[1].data) = {}) =>
        /\ \A g \in KeySet(callArgs[2]) :
              g \in GroupNames(callRes) /\ GroupOf(callRes, g) = Get(callArgs[2], g)
        /\ \A key \in KeySet(callArgs[1].data) \ WrittenKeys(callArgs[2]) :
              In(callRes, key) /\ Get(callRes, key) = Get(callArgs[1].data, key)

\* C27: grouper partition.  The groups of a catalog are its nested entries,
\* each under its own key with its own value, and, when the catalog has
\* top-level texts, the group "default" holding exactly those texts under
\* their own keys; nothing else is in the result.
GrouperPartition ==
    called = "group" =>
        LET catalog == callArgs[1].data
            scalars == {catalog[i].k : i \in {j \in 1..Len(catalog) : ~IsObject(catalog[j].v)}}
            nested == KeySet(catalog) \ scalars
        IN  /\ \A key \in nested :
                  In(callRes, key) /\ Get(callRes, key) = Get(catalog, key)
            /\ scalars # {} =>
                  /\ In(callRes, DefaultGroup)
                  /\ KeySet(Get(callRes, DefaultGroup).ent) = scalars
                  /\ \A key \in scalars :
                        Get(Get(callRes, DefaultGroup).ent, key) = Get(catalog, key)
            /\ KeySet(callRes) = nested \cup (IF scalars # {} THEN {DefaultGroup} ELSE {})

\* C28: discovery failure is fatal.  When no source catalog is found, no
\* provider call is made and no target catalog or baseline is written at any
\* point of the run; translate() returns success = false with an error
\* message and no language counted, and the auto command exits with code 1.
DiscoveryFatal ==
    ~en.exists =>
        /\ providerCalls = 0 /\ written = {}
        /\ lang = lang0 /\ old = old0
        /\ (pc = "done" /\ entry = "lib") =>
              /\ ~result.success
              /\ Len(result.errors) = 1
              /\ result.translatedLanguages = <<>>
              /\ result.summary.translatedCount = 0
        /\ (pc = "done" /\ entry = "auto") => exitCode = 1

\* translate() has returned for a workspace with a baseline and target
\* catalogs that have content, and no source catalog
DiscoveryFatalWitness ==
    /\ ~en.exists /\ pc = "done" /\ entry = "lib"
    /\ old0.exists /\ Len(old0.data) > 0
    /\ \E L \in TargetSet : Len(lang0[L].data) > 0
    /\ ~result.success

\* a file that is there and that JSON.parse rejects
Malformed(file) == file.exists /\ ~file.valid

\* C29: malformed catalogs are treated as empty and are not fatal.  With a
\* malformed baseline translate() computes no diff and takes the grouping of
\* the whole source as the translatable content; the merge into a malformed
\* target catalog writes what it writes into the empty catalog; and a run that
\* started with a malformed baseline or target and met no provider failure
\* ends without error (success and no error message from translate(), exit
\* code 0 from the auto command), every target being translated and the
\* baseline saved when the baseline was the malformed file and the source has
\* a text.
MalformedNotFatal ==
    /\ [][/\ (pc = "t_init" /\ en.exists /\ Malformed(old)) =>
                 /\ diffResult' = NoDiff
                 /\ translatableContent' = groupEnContent(en)
                 /\ pc' = IF TotalItems(groupEnContent(en)) > 0 THEN "t_group" ELSE Returned
          /\ \A L \in TargetSet :
                 (pc = "t_group" /\ Malformed(lang[L]) /\ lang'[L] # lang[L]) =>
                     /\ lang'[L] = updateLanguageFile(JsonFile(EmptyObj), translatedGroups)
                     /\ lang'[L] = JsonFile(mergeGroupedContent(translatedGroups))
         ]_vars
    /\ [](pc = "done" /\ en.exists /\ faults = 0
              /\ (Malformed(old0) \/ \E L \in TargetSet : Malformed(lang0[L])) =>
             /\ entry = "lib" => result.success /\ result.errors = <<>>
             /\ entry = "auto" => exitCode = 0
             /\ (Malformed(old0) /\ TotalItems(groupEnContent(en)) > 0) =>
                    /\ result.translatedLanguages = targetLanguages
                    /\ old = JsonFile(en.data))

\* a finished run that started with a malformed baseline and a malformed
\* target catalog, translated the source and wrote that target
MalformedNotFatalWitness ==
    /\ pc = "done" /\ faults = 0
    /\ Malformed(old0) /\ Malformed(lang0[targetLanguages[1]])
    /\ Len(en.data) > 1
    /\ lang[targetLanguages[1]].valid /\ Len(lang[targetLanguages[1]].data) > 1
    /\ result.success /\ old = JsonFile(en.data)

\* C30: write failures are per file and reported.  In a finished run no target
\* catalog whose write failed is counted as translated; and when every
\* provider call of the run gave a complete translation, every target catalog
\* that can be written was written, and so was the baseline if it can be.
WriteFailureReported ==
    pc = "done" =>
        /\ \A L \in TargetSet \cap readOnly : L \notin Elems(result.translatedLanguages)
        /\ (faults = 0 /\ providerCalls > 0) =>
              /\ \A L \in TargetSet \ readOnly : L \in written
              /\ BaselineFile \notin readOnly => BaselineFile \in written

\* C31: sequential processing order.  Within a run a provider call is made for
\* the group the current language is at and ends with that group translated or
\* recorded as failed, the language staying the same; the group index advances by one
\* within a language; the language index advances by one, and only when the
\* groups of the language are all processed or the language has failed, the
\* next language starting at its first group with nothing translated; and
\* the translation step writes only the catalog of the current language, after
\* all its groups have been processed.
SequentialOrder ==
    [][/\ (run' = run /\ providerCalls' # providerCalls) =>
              /\ pc = "t_group" /\ langIdx \in 1..Len(targetLanguages)
              /\ langIdx' = langIdx
              /\ groupIdx \in 1..Len(translatableContent)
              /\ providerCalls' = providerCalls + 1
              /\ \/ /\ groupIdx' = groupIdx + 1
                    /\ translatedGroups' = Put(translatedGroups, CurrentGroup.k,
                                               Get(translatedGroups', CurrentGroup.k))
                    /\ In(translatedGroups', CurrentGroup.k)
                    /\ groupErrors' = groupErrors
                 \/ /\ groupErrors' = groupErrors + 1
                    /\ translatedGroups' = translatedGroups
                    /\ groupIdx' = groupIdx + 1 \/ langError' # <<>>
       /\ (pc = "t_group" /\ langIdx' = langIdx /\ groupIdx' # groupIdx) =>
              groupIdx' = groupIdx + 1
       /\ (pc = "t_group" /\ langIdx' # langIdx) =>
              /\ langError # <<>> \/ groupIdx > Len(translatableContent)
              /\ \/ langIdx' = langIdx + 1 /\ groupIdx' = 1 /\ translatedGroups' = EmptyObj
                 \/ langIdx' = 0 /\ pc' = "t_finish"
       /\ \A L \in TargetSet :
              (pc = "t_group" /\ lang'[L] # lang[L]) =>
                  /\ L = targetLanguages[langIdx]
                  /\ groupIdx > Len(translatableContent)
                  /\ langError = <<>>
      ]_vars

\* the second language is at its second group, after two calls for the first
\* language and the write of its catalog, and one call for the second
SequentialOrderWitness ==
    /\ pc = "t_group" /\ langIdx = 2 /\ groupIdx = 2
    /\ Len(translatableContent) = 2
    /\ providerCalls = 3
    /\ targetLanguages[1] \in written
    /\ lang[targetLanguages[1]] # lang0[targetLanguages[1]]
    /\ lang[targetLanguages[2]] = lang0[targetLanguages[2]]
    /\ Len(translatedGroups) = 1

\* translate() has returned: to the auto command, or to the caller of the library
TranslateReturned == pc = "t_return" \/ (pc = "done" /\ entry = "lib")

\* C32: termination in a terminal outcome.  Every call of translate()
\* eventually returns, and the result it returns is in exactly one of the
\* outcomes no-work, translated and failed.
TerminalOutcome ==
    /\ (pc = "t_init") ~> TranslateReturned
    /\ [](TranslateReturned =>
             LET OutcomeNoWork ==
                     /\ result.success
                     /\ result.summary.translatedCount = 0
                     /\ result.skippedLanguages = targetLanguages \/ Len(targetLanguages) = 0
                 OutcomeTranslated == result.summary.translatedCount >= 1
                 OutcomeFailed ==
                     result.summary.translatedCount = 0 /\ Len(result.errors) >= 1
             IN  /\ OutcomeNoWork \/ OutcomeTranslated \/ OutcomeFailed
                 /\ ~(OutcomeNoWork /\ OutcomeTranslated)
                 /\ ~(OutcomeNoWork /\ OutcomeFailed)
                 /\ ~(OutcomeTranslated /\ OutcomeFailed))

\* a library call that returned failed after provider calls, none of which
\* gave a translation
TerminalOutcomeWitness ==
    /\ pc = "done" /\ entry = "lib"
    /\ result.summary.translatedCount = 0 /\ Len(result.errors) >= 1
    /\ ~result.success
    /\ providerCalls >= 2
    /\ result.summary.errorCount >= 1

\* C33: a failed language leaves its catalog untouched.  The step in which
\* translateLanguage ends in failure (the breaker tripped, or the group loop
\* ended with no group translated) writes no file, records the error and
\* does not count the language as translated; no step of a run that records an
\* error writes a catalog; and while the groups of a language are being translated
\* no catalog is written, so a subset of translated groups is never merged.
FailedLanguageUntouched ==
    [][/\ (/\ pc = "t_group"
           /\ langError # <<>> \/ (GroupsDone /\ Len(translatedGroups) = 0)) =>
              /\ lang' = lang /\ old' = old /\ written' = written
              /\ Len(result'.errors) = Len(result.errors) + 1
              /\ result'.translatedLanguages = result.translatedLanguages
       /\ (run' = run /\ result'.errors # result.errors) =>
              lang' = lang /\ written' = written
       /\ (pc = "t_group" /\ langIdx' = langIdx) => lang' = lang /\ written' = written
      ]_vars

\* translateLanguage has failed by the breaker after one group was translated
\* and two failed; nothing was written
FailedLanguageUntouchedWitness ==
    /\ pc = "t_finish"
    /\ providerCalls = 3 /\ faults = 2
    /\ Len(result.errors) = 1 /\ Includes(result.errors[1], "rate-too-high")
    /\ result.translatedLanguages = <<>>
    /\ written = {} /\ lang = lang0

\* C34: write isolation.  No step of a run changes the source catalog; the
\* deletion step of the auto command changes target catalogs and the baseline
\* only; and a step of the translation of language L changes no catalog other
\* than L's, the baseline included, and adds no other file to the files
\* written.
WriteIsolation ==
    [][/\ en' = en
       /\ (pc = "t_group" /\ langIdx \in 1..Len(targetLanguages)) =>
              LET L == targetLanguages[langIdx]
              IN  /\ \A M \in TargetSet \ {L} : lang'[M] = lang[M]
                  /\ old' = old
                  /\ written' \subseteq written \cup {L}
       /\ written' \subseteq written \cup TargetSet \cup {BaselineFile, BackupMark}
      ]_vars

\* the second language has been translated and written after the first: its
\* catalog and the first one differ from what the run found, the third does
\* not, and the source catalog is as it was
WriteIsolationWitness ==
    /\ pc = "t_group" /\ langIdx = 3
    /\ {targetLanguages[1], targetLanguages[2]} \subseteq written
    /\ lang[targetLanguages[1]] # lang0[targetLanguages[1]]
    /\ lang[targetLanguages[2]] # lang0[targetLanguages[2]]
    /\ lang[targetLanguages[3]] = lang0[targetLanguages[3]]
    /\ targetLanguages[3] \notin written

\* C35: language success criterion.  translateLanguage reports the
\* language as succeeded iff at least one group was translated and the breaker
\* did not trip, and then the translated groups are merged into the catalog
\* (under their names, or at the top level for the group of the scalar keys)
\* and the failed and the skipped groups are left as they were.
LanguageSuccess ==
    [][(pc = "t_group" /\ (langError # <<>> \/ GroupsDone)) =>
          LET L == targetLanguages[langIdx]
              succeeded == result'.translatedLanguages = Append(result.translatedLanguages, L)
              GroupMerged(e) ==
                  LET target == IF e.k = DefaultGroup THEN lang'[L].data
                                ELSE IF IsObject(Get(lang'[L].data, e.k))
                                     THEN Get(lang'[L].data, e.k).ent ELSE EmptyObj
                  IN  \A i \in 1..Len(e.v.ent) : Get(target, e.v.ent[i].k) = e.v.ent[i].v
              GroupLeft(e) ==
                  IF e.k = DefaultGroup
                  THEN \A i \in 1..Len(e.v.ent) :
                           Get(lang'[L].data, e.v.ent[i].k) = Get(lang[L].data, e.v.ent[i].k)
                  ELSE Get(lang'[L].data, e.k) = Get(lang[L].data, e.k)
          IN  /\ succeeded <=> (Len(translatedGroups) >= 1 /\ langError = <<>>)
              /\ succeeded =>
                    \A i \in 1..Len(translatableContent) :
                        LET e == translatableContent[i]
                        IN  IF In(translatedGroups, e.k)
                            THEN GroupMerged(Entry(e.k, Get(translatedGroups, e.k)))
                            ELSE GroupLeft(e)
      ]_vars

\* C36: convergence after success.  In the run that follows a run in which a
\* language was translated and the baseline saved, the source being the same,
\* no provider call is made and no file changes; the diff that is computed is
\* empty; translate() returns success with every target skipped and none
\* translated or failed; and the auto command ends with exit code 0.
Convergence ==
    run = 2 =>
        /\ providerCalls = 0 /\ lang = lang0 /\ old = old0
        /\ old = JsonFile(en.data)
        /\ autoDiff \in {NoDiff, Computed(EmptyDiff)}
        /\ diffResult \in {NoDiff, Computed(EmptyDiff)}
        /\ TranslateReturned =>
              /\ diffResult = Computed(EmptyDiff)
              /\ result.success
              /\ result.skippedLanguages = targetLanguages
              /\ result.summary.skippedCount = Len(targetLanguages)
              /\ result.summary.translatedCount = 0
              /\ result.errors = <<>>
        /\ (pc = "done" /\ entry = "auto") => autoDiff = Computed(EmptyDiff) \/ force
        /\ (pc = "done" /\ entry = "auto") => exitCode = 0

\* translate() has returned no-work in the run that follows a run in which one
\* language failed and the others were translated
ConvergenceWitness ==
    /\ run = 2 /\ pc = "done" /\ entry = "lib"
    /\ result.success /\ result.skippedLanguages = targetLanguages
    /\ faults > 0
    /\ \E L \in TargetSet : lang[L].data = EmptyObj
    /\ \E L \in TargetSet : Len(lang[L].data) > 0

\* C37: run-result accounting.  In every result translate() returns,
\* translatedCount and skippedCount are the numbers of the languages listed as
\* translated and as skipped, the three counts together do not exceed
\* totalLanguages, no language is listed twice or as both translated and
\* skipped, and success implies no counted error and a translated language, or
\* every target skipped, or no target.
ResultAccounting ==
    TranslateReturned =>
        LET translated == Elems(result.translatedLanguages)
            skipped == Elems(result.skippedLanguages)
            sum == result.summary
        IN  /\ sum.translatedCount = Len(result.translatedLanguages)
            /\ sum.translatedCount = Cardinality(translated)
            /\ sum.skippedCount = Len(result.skippedLanguages)
            /\ sum.skippedCount = Cardinality(skipped)
            /\ sum.translatedCount + sum.errorCount + sum.skippedCount <= sum.totalLanguages
            /\ translated \cap skipped = {}
            /\ translated \cup skipped \subseteq TargetSet
            /\ result.success =>
                  /\ sum.errorCount = 0
                  /\ \/ sum.translatedCount > 0
                     \/ result.skippedLanguages = targetLanguages
                     \/ Len(targetLanguages) = 0

\* translate() has returned to the auto command with one language translated
\* and two failed
ResultAccountingWitness ==
    /\ pc = "t_return"
    /\ result.summary.translatedCount = 1
    /\ result.summary.errorCount = 2
    /\ result.summary.totalLanguages = 3
    /\ ~result.success

\* the stages of the parse in the order of the code
ParseStages == <<"strict", "repair", "lines">>

\* translateTextObject has handled a response that translateText delivered
ResponseHandled == called = "translate" /\ callArgs.response.ok

\* the stages gone through are the first ones of ParseStages, each entered
\* because the one before failed, and the object returned is that of the last
StagesInOrder ==
    /\ ~callRes.threw
    /\ Len(callRes.stages) \in 1..3
    /\ callRes.stages = SubSeq(ParseStages, 1, Len(callRes.stages))
    /\ Len(callRes.stages) >= 2 => ~JSONparse(callArgs.response.text).ok
    /\ Len(callRes.stages) = 3 => ~JSONparse(RepairText(callArgs.response.text)).ok
    /\ callRes.path \in {"strict", "repair", "lines", "fallback"}
    /\ callRes.path # "fallback" => callRes.path = callRes.stages[Len(callRes.stages)]
    /\ callRes.path = "lines" =>
          Len(ExtractLines(callArgs.textObject, callArgs.response)) # 0

\* the line-based extraction was attempted and gave no pair
ExtractionGaveNothing ==
    /\ callRes.stages = ParseStages
    /\ Len(ExtractLines(callArgs.textObject, callArgs.response)) = 0

\* C38 as stated: parse-failure recovery order.  A response is parsed
\* strictly, then after repair, then line by line, and the keys are
\* translated one by one only when the line-based extraction gave no pair.
RecoveryOrder ==
    ResponseHandled =>
        /\ StagesInOrder
        /\ callRes.path = "fallback" => ExtractionGaveNothing

\* C38: parse-failure recovery order.  A response is parsed strictly, then
\* after repair, then line by line; the keys are translated one by one when
\* the line-based extraction gave no pair, and also, without the later stages
\* being attempted, when the strict or the repaired parse gave a value that
\* is not an object; a delivered response never makes the group fail.
RecoveryOrderOrScalar ==
    ResponseHandled =>
        /\ StagesInOrder
        /\ callRes.path = "fallback" <=>
              \/ ExtractionGaveNothing
              \/ Len(callRes.stages) < 3 /\ callArgs.response.text.body = "scalar"

\* a single-quoted JSON string as response: the repaired parse gives a string
\* and the keys are translated one by one without any line being looked at
RecoveryOrderOrScalarWitness ==
    /\ ResponseHandled
    /\ callArgs.response.text.body = "scalar"
    /\ callArgs.response.text.defect = "singleQuotes"
    /\ callRes.stages = <<"strict", "repair">>
    /\ callRes.path = "fallback"
    /\ Len(callRes.value) = Len(callArgs.textObject)

\* C39: key preservation through translation.  Every translated group kept
\* for the merge into the target catalog has exactly the keys of the group
\* that was sent to the provider.
KeyPreservation ==
    \A i \in 1..Len(translatedGroups) :
        LET groupName == translatedGroups[i].k
        IN  /\ In(translatableContent, groupName)
            /\ KeySet(translatedGroups[i].v.ent)
                  = KeySet(Get(translatableContent, groupName).ent)

====
